---- MODULE Spec2Model ----
(***************************************************************************)
(* TokenFlow: lexicon, inverted index, lattice construction and graph      *)
(* walker.                                                                 *)
(*                                                                         *)
(* Lexicon / Domain            src/src/tokenizer/lexicon.ts                *)
(* Tokenizer                   src/src/tokenizer/tokenizer.ts              *)
(* walk / getPath / makeEdgeList   src/test/graph/graph.test.ts            *)
(*                                                                         *)
(* The term model, the number parser, the matchers and the graph classes   *)
(* (DynamicGraph, StaticGraph, GraphWalker) are imported by these files    *)
(* but are not part of the source tree at hand; they are modelled from     *)
(* spec.md and from what the tests in the tree show of them.               *)
(***************************************************************************)
EXTENDS Integers, Sequences, FiniteSets, TLC

VARIABLES
    domains,    \* Lexicon.domains
    tok,        \* the Tokenizer: aliases, hashToText, hashToFrequency, postings
    query,      \* the terms of the last query
    graph,      \* the graph generateGraph returned for it
    lattice,    \* the edge lists a walk test hands to its graphs
    family,     \* where lattice comes from: "makeEdgeList" or "free"
    turn,       \* the walker being driven: "dynamic", "static", then "done"
    walker,     \* the GraphWalker of that turn
    pc,         \* where walk() stands: "advance" or "retreat"
    depth,      \* the number of nested calls of walk()
    yielded,    \* the paths walk() has yielded, per graph class
    run,        \* TestCase.run: its position and its locals
    scored      \* a call of Tokenizer.score: its arguments and its result

vars == <<domains, tok, query, graph,
          lattice, family, turn, walker, pc, depth, yielded, run, scored>>

lexVars == <<domains, tok, query, graph>>

walkVars == <<lattice, family, turn, walker, pc, depth, yielded>>

runVars == <<run, scored>>

(***************************************************************************)
(* Bounds of the model.                                                    *)
(***************************************************************************)
\* Lexicon.domains holds at most this many domains.
MaxDomains == 2

\* Aliases registered in the whole lexicon, over all domains.
MaxAliases == 2

\* Tokenizer.aliases holds at most this many items (ingest may be repeated).
MaxItems == 3

\* Vertex count of the lattices built by makeEdgeList.
MaxVertexCount == 6

\* Positions of the freely chosen lattices.
MaxPositions == 3

(***************************************************************************)
(* Sequence helpers.                                                       *)
(***************************************************************************)
Range(s) == {s[i] : i \in 1..Len(s)}

RECURSIVE SumLengths(_)
SumLengths(es) ==
    IF es = <<>> THEN 0 ELSE Head(es).length + SumLengths(Tail(es))

RECURSIVE SumScores(_)
SumScores(es) ==
    IF es = <<>> THEN 0 ELSE Head(es).score + SumScores(Tail(es))

RECURSIVE Occurrences(_, _)
Occurrences(s, x) ==
    IF s = <<>> THEN 0
    ELSE (IF Head(s) = x THEN 1 ELSE 0) + Occurrences(Tail(s), x)

RECURSIVE SumOver(_, _)
SumOver(f, S) ==
    IF S = {} THEN 0
    ELSE LET x == CHOOSE y \in S : TRUE IN f[x] + SumOver(f, S \ {x})

Max(a, b) == IF a >= b THEN a ELSE b

(***************************************************************************)
(* Term model (4.1 of spec.md).  stem is a Snowball-style stemmer, shown   *)
(* here on the words the model uses; hashTerm is an injective fingerprint  *)
(* on those stems.                                                         *)
(***************************************************************************)
Stem(term) ==
    CASE term = "cars" -> "car"
      [] term = "hundreds" -> "hundr"
      [] term = "hundred" -> "hundr"
      [] OTHER -> term

HashTerm(stem) ==
    CASE stem = "" -> 0
      [] stem = "red" -> 11
      [] stem = "car" -> 12
      [] stem = "blue" -> 13
      [] stem = "one" -> 21
      [] stem = "hundr" -> 22
      [] stem = "@qty" -> 31
      [] OTHER -> 99

StemAndHash(term) == HashTerm(Stem(term))

\* Fingerprints reserved for placeholder terms (terms that start with '@').
IsTokenHash(h) == h = HashTerm("@qty")

\* The canonical fingerprint that marks a numeric position.
IsNumberHash(h) == h = HashTerm("@number")

(***************************************************************************)
(* Number parser (4.2 of spec.md), on the cardinal phrases                 *)
(*   "one", "one hundred", "one hundred one".                              *)
(* Every prefix of the input that is a number is emitted, shortest first.  *)
(***************************************************************************)
OwnHashedTerms == {StemAndHash("one"), StemAndHash("hundred")}

Parse(input) ==
    LET one == StemAndHash("one")
        hundred == StemAndHash("hundred")
        p1 == Len(input) >= 1 /\ input[1] = one
        p2 == p1 /\ Len(input) >= 2 /\ input[2] = hundred
        p3 == p2 /\ Len(input) >= 3 /\ input[3] = one
    IN  (IF p1 THEN <<[value |-> 1, length |-> 1]>> ELSE <<>>)
        \o (IF p2 THEN <<[value |-> 100, length |-> 2]>> ELSE <<>>)
        \o (IF p3 THEN <<[value |-> 101, length |-> 3]>> ELSE <<>>)

(***************************************************************************)
(* Matcher (4.3 of spec.md): the exact-prefix matcher.  The alias matches  *)
(* when all of it is a prefix of the query (scenario 4 of spec.md);        *)
(* otherwise the match is empty.                                           *)
(***************************************************************************)
IsPrefixOf(prefix, q) ==
    /\ Len(prefix) <= Len(q)
    /\ \A i \in 1..Len(prefix) : prefix[i] = q[i]

EmptyDiff ==
    [match |-> <<>>, cost |-> 0, leftmostA |-> -1, rightmostA |-> -1,
     alignments |-> 0, commonTerms |-> {}]

ExactPrefix(q, prefix) ==
    IF Len(prefix) >= 1 /\ IsPrefixOf(prefix, q)
    THEN [match |-> prefix, cost |-> 0, leftmostA |-> 0,
          rightmostA |-> Len(prefix) - 1, alignments |-> Len(prefix),
          commonTerms |-> Range(prefix)]
    ELSE EmptyDiff

RunMatcher(matcher, q, prefix) ==
    CASE matcher = "exactPrefix" -> ExactPrefix(q, prefix)
      [] OTHER -> EmptyDiff

(***************************************************************************)
(* Inputs: the aliases a catalog may hand to the lexicon, and the queries. *)
(* An alias text is its sequence of whitespace-separated words; the empty  *)
(* text is <<>>.                                                           *)
(***************************************************************************)
AliasInputs ==
    { [token |-> "RED",    text |-> <<"red">>,                   matcher |-> "exactPrefix"],
      [token |-> "CARCAR", text |-> <<"cars", "car">>,           matcher |-> "exactPrefix"],
      [token |-> "ROOM",   text |-> <<"one", "hundred", "one">>, matcher |-> "exactPrefix"] }

QueryInputs ==
    { <<"red">>, <<"car", "cars">>, <<"one", "hundreds", "one">>,
      <<"red", "blue", "car">> }

\* An alias whose text is the empty string, and the aliases registration
\* may be handed when malformed ones are among them.
EmptyAlias == [token |-> "EMPTY", text |-> <<>>, matcher |-> "exactPrefix"]

RegistrationInputs == AliasInputs \cup {EmptyAlias}

RECURSIVE SeqsUpTo(_, _)
SeqsUpTo(S, n) ==
    IF n = 0 THEN {<<>>}
    ELSE LET shorter == SeqsUpTo(S, n - 1)
         IN  shorter \cup {Append(s, x) : s \in shorter, x \in S}

(***************************************************************************)
(* Lexicon and Domain.                                                     *)
(***************************************************************************)
\* text.split(/\s+/): the empty text splits into one empty term.
Split(text) == IF text = <<>> THEN <<"">> ELSE text

MapStem(terms) == [i \in 1..Len(terms) |-> Stem(terms[i])]

MapHash(stemmed) == [i \in 1..Len(stemmed) |-> HashTerm(stemmed[i])]

\* One pass of the constructor's loop: the TokenizerAlias built for alias.
\* self is the index of the domain whose isDownstreamTerm the alias captures.
MakeTokenizerAlias(alias, self) ==
    LET terms == Split(alias.text)
        stemmed == MapStem(terms)
        hashes == MapHash(stemmed)
    IN  [token |-> alias.token, text |-> alias.text, matcher |-> alias.matcher,
         terms |-> terms, stemmed |-> stemmed, hashes |-> hashes,
         domain |-> self]

RECURSIVE OwnTermsOf(_)
OwnTermsOf(tas) ==
    IF tas = <<>> THEN {} ELSE Range(Head(tas).hashes) \cup OwnTermsOf(Tail(tas))

DomainConstructor(aliases, self, forIngestion) ==
    LET tas == [i \in 1..Len(aliases) |-> MakeTokenizerAlias(aliases[i], self)]
    IN  [tokenizerAliases |-> tas,
         ownTerms |-> OwnTermsOf(tas),
         downstreamTerms |-> {},
         forIngestion |-> forIngestion]

\* The mutant leaves out the test domain !== this.
AddDownstreamTermsOfAll(ds, i, numberTerms) ==
    IF ds[i].forIngestion
    THEN [ds EXCEPT ![i].downstreamTerms =
            numberTerms \cup UNION {ds[j].ownTerms : j \in 1..Len(ds)}]
    ELSE ds

\* Domain.addDownstreamTerms, called on domain i of ds.
AddDownstreamTerms(ds, i, numberTerms) ==
    IF ds[i].forIngestion
    THEN [ds EXCEPT ![i].downstreamTerms =
            numberTerms \cup
            UNION {ds[j].ownTerms : j \in (1..Len(ds)) \ {i}}]
    ELSE ds

\* Domain.isDownstreamTerm of domain i, as a predicate over fingerprints.
\* It reads the domain's downstreamTerms when it is called.
AllHashes ==
    {StemAndHash(t) : t \in {"", "red", "cars", "car", "blue", "one",
                             "hundred", "hundreds", "@qty", "@number"}}

IsDownstreamTerm(ds, i) ==
    [h \in AllHashes |->
        IsTokenHash(h) \/ IsNumberHash(h) \/ h \in ds[i].downstreamTerms]

IsNeverDownstreamTerm == [h \in AllHashes |-> FALSE]

(***************************************************************************)
(* Tokenizer: the inverted index.                                          *)
(***************************************************************************)
EmptyTokenizer ==
    [aliases |-> <<>>, hashToText |-> <<>>, hashToFrequency |-> <<>>,
     postings |-> <<>>]

Put(f, k, v) == [x \in DOMAIN f \cup {k} |-> IF x = k THEN v ELSE f[x]]

\* One pass of addItem's loop, for the fingerprint at index of the alias.
AddHash(t, alias, index, id) ==
    LET hash == alias.hashes[index]
    IN  [t EXCEPT
          !.hashToText =
              IF hash \in DOMAIN t.hashToText THEN @
              ELSE Put(@, hash, alias.stemmed[index]),
          !.hashToFrequency =
              IF hash \in DOMAIN @ THEN Put(@, hash, @[hash] + 1)
              ELSE Put(@, hash, 1),
          !.postings =
              IF hash \in DOMAIN @ THEN Put(@, hash, Append(@[hash], id))
              ELSE Put(@, hash, <<id>>)]

RECURSIVE AddHashes(_, _, _, _)
AddHashes(t, alias, index, id) ==
    IF index > Len(alias.hashes) THEN t
    ELSE AddHashes(AddHash(t, alias, index, id), alias, index + 1, id)

\* The mutant takes the id after the push.
AddItemIdAfterPush(t, alias) ==
    LET pushed == [t EXCEPT !.aliases = Append(@, alias)]
    IN  AddHashes(pushed, alias, 1, Len(pushed.aliases))

AddItem(t, alias) ==
    LET id == Len(t.aliases)
        pushed == [t EXCEPT !.aliases = Append(@, alias)]
    IN  AddHashes(pushed, alias, 1, id)

RECURSIVE AddItems(_, _)
AddItems(t, tas) ==
    IF tas = <<>> THEN t ELSE AddItems(AddItem(t, Head(tas)), Tail(tas))

\* The mutant ingests every domain.
DomainIngestAlways(t, d) == AddItems(t, d.tokenizerAliases)

\* Domain.ingest.
DomainIngest(t, d) ==
    IF d.forIngestion THEN AddItems(t, d.tokenizerAliases) ELSE t

\* Lexicon.ingest: the loop over the domains, from domain i on.
RECURSIVE LexiconIngest(_, _, _)
LexiconIngest(ds, t, i) ==
    IF i > Len(ds) THEN [domains |-> ds, tok |-> t]
    ELSE LET ds2 == AddDownstreamTerms(ds, i, OwnHashedTerms)
         IN  LexiconIngest(ds2, DomainIngest(t, ds2[i]), i + 1)

(***************************************************************************)
(* Tokenizer: scoring.  A score is a rational number; it is kept here as   *)
(* the integer score * ScoreScale.  NaN and PosInf stand for the two       *)
(* non-finite values the arithmetic of score() can produce.                *)
(***************************************************************************)
ScoreScale == 7 * 720

NaN == 0 - 1000000000

PosInf == 1000 * 1000000

IsFinite(s) == s # NaN /\ s # PosInf

\* score <= 0.01, as JavaScript evaluates it (false for NaN).
AtMostFloor(s) ==
    CASE s = NaN -> FALSE
      [] s = PosInf -> FALSE
      [] OTHER -> 100 * s <= ScoreScale

\* matchFactor * commonFactor * positionFactor * lengthFactor.
BaseScore(diff) ==
    LET m == Len(diff.match)
        l == diff.rightmostA + 1
        cost == diff.cost
        c == Cardinality(diff.commonTerms)
        pos == Max(m - diff.leftmostA, 0)
        mfNum == IF l > cost THEN l - cost ELSE 1
        mfDen == IF l > cost THEN l ELSE l + cost
    IN  CASE m = 0 -> NaN
          [] m > 0 /\ mfDen = 0 -> IF c = 0 \/ pos = 0 THEN NaN ELSE PosInf
          [] OTHER -> (ScoreScale * mfNum * c * pos) \div (mfDen * m)

\* Tokenizer.score.
Score(q, prefix, isDownstreamTerm, diff) ==
    LET c == Cardinality(diff.commonTerms)
        commonDownstreamWords == {h \in diff.commonTerms : isDownstreamTerm[h]}
        rejected ==
            /\ c > 0
            /\ c = Cardinality(commonDownstreamWords)
            /\ c # Len(prefix)
        s1 == IF rejected THEN 0 - ScoreScale ELSE BaseScore(diff)
        s2 == IF AtMostFloor(s1) THEN 0 - ScoreScale ELSE s1
    IN  [score |-> s2, length |-> diff.rightmostA + 1]

\* Tokenizer.matchAndScore.
MatchAndScore(ds, q, alias) ==
    LET prefix == alias.hashes
        match == RunMatcher(alias.matcher, q, prefix)
    IN  Score(q, prefix, IsDownstreamTerm(ds, alias.domain), match)

(***************************************************************************)
(* Tokenizer: lattice construction.                                        *)
(***************************************************************************)
\* The sign of the comparator (a, b) => b.score - a.score; a NaN difference
\* counts as 0, as Array.prototype.sort takes it.
Comparator(a, b) ==
    CASE a.score = NaN \/ b.score = NaN -> 0
      [] a.score = PosInf /\ b.score = PosInf -> 0
      [] a.score = PosInf -> -1
      [] b.score = PosInf -> 1
      [] b.score > a.score -> 1
      [] b.score < a.score -> -1
      [] OTHER -> 0

\* Insertion of e into a sorted list, behind its equals.
RECURSIVE InsertSorted(_, _)
InsertSorted(sorted, e) ==
    IF sorted = <<>> THEN <<e>>
    ELSE LET last == sorted[Len(sorted)]
         IN  IF Comparator(last, e) > 0
             THEN Append(InsertSorted(SubSeq(sorted, 1, Len(sorted) - 1), e), last)
             ELSE Append(sorted, e)

RECURSIVE SortFrom(_, _)
SortFrom(sorted, rest) ==
    IF rest = <<>> THEN sorted
    ELSE SortFrom(InsertSorted(sorted, Head(rest)), Tail(rest))

\* edges.sort((a, b) => b.score - a.score)
SortEdges(edges) == SortFrom(<<>>, edges)

\* The alias edges of position index: one per entry of the postings list.
AliasEdges(t, ds, hashed, index) ==
    LET hash == hashed[index]
        tail == SubSeq(hashed, index, Len(hashed))
    IN  IF hash \in DOMAIN t.postings
        THEN LET items == t.postings[hash]
             IN  [n \in 1..Len(items) |->
                    LET r == MatchAndScore(ds, tail, t.aliases[items[n] + 1])
                    IN  [score |-> r.score, length |-> r.length,
                         label |-> items[n], isNumber |-> FALSE]]
        ELSE <<>>

\* The number edges of position index: one per match of the number parser.
NumberEdges(hashed, index) ==
    LET tail == SubSeq(hashed, index, Len(hashed))
        output == Parse(tail)
    IN  [n \in 1..Len(output) |->
            LET value == output[n]
                match == SubSeq(hashed, index, index + value.length - 1)
                diff == [match |-> match, cost |-> 0, leftmostA |-> 0,
                         rightmostA |-> value.length - 1,
                         alignments |-> value.length,
                         commonTerms |-> Range(match)]
                r == Score(hashed, match, IsNeverDownstreamTerm, diff)
            IN  [score |-> r.score, length |-> r.length,
                 label |-> value.value, isNumber |-> TRUE]]

\* The mutant scores every alias at every position, postings or not.
PositionEdgesAllAliases(t, ds, hashed, index) ==
    LET tail == SubSeq(hashed, index, Len(hashed))
        all == [n \in 1..Len(t.aliases) |->
                  LET r == MatchAndScore(ds, tail, t.aliases[n])
                  IN  [score |-> r.score, length |-> r.length,
                       label |-> n - 1, isNumber |-> FALSE]]
    IN  SortEdges(all \o NumberEdges(hashed, index))

\* One pass of generateGraph's loop: the sorted edge list of position index.
PositionEdges(t, ds, hashed, index) ==
    SortEdges(AliasEdges(t, ds, hashed, index) \o NumberEdges(hashed, index))

\* The edgeLists generateGraph hands to the graph.
GenerateEdgeLists(t, ds, hashed) ==
    [index \in 1..Len(hashed) |-> PositionEdges(t, ds, hashed, index)]

(***************************************************************************)
(* Graph: an edge list per position.  Both graph classes give every        *)
(* position a default edge of score 0, length 1 and label -1 ahead of the  *)
(* edges they are handed: the lattices of graph.test.ts hold no edge of    *)
(* length 1, and their walks end with the path "abcdefg" of score 0.       *)
(***************************************************************************)
DefaultEdge == [score |-> 0, length |-> 1, label |-> -1, isNumber |-> FALSE]

WithDefaultEdges(lists) == [i \in 1..Len(lists) |-> <<DefaultEdge>> \o lists[i]]


\* new DynamicGraph(edgeLists): completions are computed when asked for.
DynamicGraph(lists) == [kind |-> "dynamic", edges |-> WithDefaultEdges(lists)]

VertexCount(g) == Len(g.edges)

\* The edges at vertex v (0-based), and whether the k-th of them can be taken.
EdgesAt(g, v) == g.edges[v + 1]

Usable(g, v, k) ==
    LET e == EdgesAt(g, v)[k]
    IN  e.length >= 1 /\ v + e.length <= VertexCount(g) /\ IsFinite(e.score)

\* Dynamic graph: the best edge at vertex v outside discarded and the total
\* of the best completion through it, by recursion over the edges each time
\* it is asked for.  edge is 0 if there is no such edge.  Of two edges with
\* equal totals the one inserted first wins.
RECURSIVE DynamicBest(_, _, _)

\* The mutant takes the edge with the highest score of its own.
RECURSIVE DynamicScanGreedy(_, _, _, _, _)
DynamicScanGreedy(g, v, discarded, k, acc) ==
    IF k > Len(EdgesAt(g, v)) THEN acc
    ELSE LET e == EdgesAt(g, v)[k]
             ok == Usable(g, v, k) /\ k \notin discarded
             total == IF ok THEN e.score ELSE 0
             better == ok /\ (acc.edge = 0 \/ total > acc.score)
         IN  DynamicScanGreedy(g, v, discarded, k + 1,
                        IF better THEN [score |-> total, edge |-> k] ELSE acc)

\* The mutant breaks ties in favour of the edge inserted last.
RECURSIVE DynamicScanLastWins(_, _, _, _, _)
DynamicScanLastWins(g, v, discarded, k, acc) ==
    IF k > Len(EdgesAt(g, v)) THEN acc
    ELSE LET e == EdgesAt(g, v)[k]
             ok == Usable(g, v, k) /\ k \notin discarded
             total == IF ok THEN e.score + DynamicBest(g, v + e.length, {}).score
                      ELSE 0
             better == ok /\ (acc.edge = 0 \/ total >= acc.score)
         IN  DynamicScanLastWins(g, v, discarded, k + 1,
                        IF better THEN [score |-> total, edge |-> k] ELSE acc)

RECURSIVE DynamicScan(_, _, _, _, _)
DynamicScan(g, v, discarded, k, acc) ==
    IF k > Len(EdgesAt(g, v)) THEN acc
    ELSE LET e == EdgesAt(g, v)[k]
             ok == Usable(g, v, k) /\ k \notin discarded
             total == IF ok THEN e.score + DynamicBest(g, v + e.length, {}).score
                      ELSE 0
             better == ok /\ (acc.edge = 0 \/ total > acc.score)
         IN  DynamicScan(g, v, discarded, k + 1,
                        IF better THEN [score |-> total, edge |-> k] ELSE acc)

DynamicBest(g, v, discarded) ==
    IF v >= VertexCount(g) THEN [score |-> 0, edge |-> 0]
    ELSE DynamicScan(g, v, discarded, 1, [score |-> 0, edge |-> 0])

DynamicBestEdge(g, v, discarded) == DynamicBest(g, v, discarded).edge

\* new StaticGraph(edgeLists): the best completion of every vertex is
\* computed once, from the last vertex back to the first.
\* The mutant lets a later edge with an equal total replace an earlier one.
RECURSIVE ScanEdgesLastWins(_, _, _, _, _)
ScanEdgesLastWins(edges, v, table, k, acc) ==
    IF k > Len(edges[v + 1]) THEN acc
    ELSE LET e == edges[v + 1][k]
             ok == e.length >= 1 /\ v + e.length <= Len(edges) /\ IsFinite(e.score)
             total == IF ok THEN e.score + table[v + e.length].score ELSE 0
             better == ok /\ (acc.edge = 0 \/ total >= acc.score)
         IN  ScanEdgesLastWins(edges, v, table, k + 1,
                       IF better THEN [score |-> total, edge |-> k] ELSE acc)

\* One scan of the edges of vertex v: the best total and its edge.
RECURSIVE ScanEdges(_, _, _, _, _)
ScanEdges(edges, v, table, k, acc) ==
    IF k > Len(edges[v + 1]) THEN acc
    ELSE LET e == edges[v + 1][k]
             ok == e.length >= 1 /\ v + e.length <= Len(edges) /\ IsFinite(e.score)
             total == IF ok THEN e.score + table[v + e.length].score ELSE 0
             better == ok /\ (acc.edge = 0 \/ total > acc.score)
         IN  ScanEdges(edges, v, table, k + 1,
                       IF better THEN [score |-> total, edge |-> k] ELSE acc)

RECURSIVE BuildTable(_, _, _)
BuildTable(edges, v, table) ==
    IF v < 0 THEN table
    ELSE BuildTable(edges, v - 1,
            Put(table, v, ScanEdges(edges, v, table, 1, [score |-> 0, edge |-> 0])))

StaticGraph(lists) ==
    LET edges == WithDefaultEdges(lists)
        last == [v \in {Len(edges)} |-> [score |-> 0, edge |-> 0]]
    IN  [kind |-> "static", edges |-> edges,
         table |-> BuildTable(edges, Len(edges) - 1, last)]

\* Static graph: the best edge at v outside discarded, by one scan of the
\* precomputed totals.
RECURSIVE StaticScan(_, _, _, _, _)
StaticScan(g, v, discarded, k, acc) ==
    IF k > Len(EdgesAt(g, v)) THEN acc
    ELSE LET e == EdgesAt(g, v)[k]
             ok == Usable(g, v, k) /\ k \notin discarded
             total == IF ok THEN e.score + g.table[v + e.length].score ELSE 0
             better == ok /\ (acc.edge = 0 \/ total > acc.score)
         IN  StaticScan(g, v, discarded, k + 1,
                        IF better THEN [score |-> total, edge |-> k] ELSE acc)

StaticBestEdge(g, v, discarded) ==
    IF discarded = {} THEN g.table[v].edge
    ELSE StaticScan(g, v, discarded, 1, [score |-> 0, edge |-> 0]).edge

\* Graph.findPath: the best completion from v that avoids the edges
\* discarded at v, as the indexes of its edges; <<>> if there is none.
BestEdge(g, v, discarded) ==
    IF g.kind = "static" THEN StaticBestEdge(g, v, discarded)
    ELSE DynamicBestEdge(g, v, discarded)

RECURSIVE FindPath(_, _, _)
FindPath(g, v, discarded) ==
    IF v >= VertexCount(g) THEN <<>>
    ELSE LET k == BestEdge(g, v, discarded)
         IN  IF k = 0 THEN <<>>
             ELSE <<k>> \o FindPath(g, v + EdgesAt(g, v)[k].length, {})


(***************************************************************************)
(* GraphWalker (4.6 of spec.md).  graph is the graph walked; left and      *)
(* right hold, for each edge, its index in the edge list of the vertex it  *)
(* leaves; discarded holds, per vertex, the edges given up there while the *)
(* walk stands at or behind it.                                            *)
(***************************************************************************)
NewWalker(g) ==
    [graph |-> g, left |-> <<>>, right |-> FindPath(g, 0, {}), current |-> 0,
     discarded |-> [v \in 0..VertexCount(g) |-> {}], retreated |-> 0]

\* The edges of a path of indexes that starts at vertex v.
RECURSIVE PathEdges(_, _, _)
PathEdges(g, v, idx) ==
    IF idx = <<>> THEN <<>>
    ELSE LET e == EdgesAt(g, v)[Head(idx)]
         IN  <<e>> \o PathEdges(g, v + e.length, Tail(idx))

\* The vertex at which the last edge of left starts.
LastStart(w) ==
    SumLengths(PathEdges(w.graph, 0, SubSeq(w.left, 1, Len(w.left) - 1)))

\* The mutant leaves the edge it advanced over at the front of right.
AdvanceKeepsRight(w) ==
    IF w.right = <<>> THEN w
    ELSE LET e == EdgesAt(w.graph, w.current)[Head(w.right)]
         IN  [w EXCEPT !.left = Append(@, Head(w.right)),
                       !.current = @ + e.length,
                       !.retreated = 0]

\* advance(): one edge forward along the best completion.
Advance(w) ==
    IF w.right = <<>> THEN w
    ELSE LET e == EdgesAt(w.graph, w.current)[Head(w.right)]
         IN  [w EXCEPT !.left = Append(@, Head(w.right)),
                       !.right = Tail(@),
                       !.current = @ + e.length,
                       !.retreated = 0]

\* complete(): left alone covers the query.
Complete(w) == w.current = VertexCount(w.graph)

\* retreat(keepEdge): undo the last advance; what was discarded beyond the
\* vertex stepped back to is forgotten.
Retreat(w, keepEdge) ==
    IF w.left = <<>> THEN w
    ELSE LET k == w.left[Len(w.left)]
             start == LastStart(w)
         IN  [w EXCEPT !.left = SubSeq(@, 1, Len(@) - 1),
                       !.right = IF keepEdge THEN <<k>> \o @ ELSE <<>>,
                       !.current = start,
                       !.retreated = k,
                       !.discarded = [v \in DOMAIN @ |->
                                        IF v > start THEN {} ELSE @[v]]]

\* The mutant finds the best completion again without giving up the edge.
DiscardForgets(w) ==
    [w EXCEPT !.right = FindPath(w.graph, w.current, w.discarded[w.current]),
              !.retreated = 0]

\* discard(): give up the edge just retreated from and find the best
\* completion among the edges left at the current vertex.
Discard(w) ==
    LET gone == w.discarded[w.current] \cup ({w.retreated} \ {0})
    IN  [w EXCEPT !.discarded[w.current] = gone,
                  !.right = FindPath(w.graph, w.current, gone),
                  !.retreated = 0]

\* What discard() returns.
DiscardFound(w) == Discard(w).right # <<>>

(***************************************************************************)
(* graph.test.ts: getPath, walk and makeEdgeList.                          *)
(***************************************************************************)
RECURSIVE Vertices(_, _)
Vertices(v, es) ==
    IF es = <<>> THEN <<v>>
    ELSE <<v>> \o Vertices(v + Head(es).length, Tail(es))

\* getPath: the vertices of left followed by right, the position of the
\* walker and the total score.
GetPath(w) ==
    LET path == PathEdges(w.graph, 0, w.left \o w.right)
    IN  [vertices |-> Vertices(0, path), edges |-> path, idx |-> w.left \o w.right,
         current |-> w.current, score |-> SumScores(path)]

RECURSIVE Pow(_, _)
Pow(b, n) == IF n = 0 THEN 1 ELSE b * Pow(b, n - 1)

\* The mutant starts the inner loop at j = 3.
MakeEdgeListFromThree(vertexCount) ==
    [p \in 1..vertexCount |->
        LET i == p - 1
        IN  [n \in 1..Max(vertexCount - i - 2, 0) |->
                LET j == n + 2
                IN  [score |-> j * Pow(5, vertexCount) - Pow(5, vertexCount - j),
                     length |-> j, label |-> i * 10 + i + j,
                     isNumber |-> FALSE]]]

\* makeEdgeList.  The score j - 0.2^j is kept as the integer
\* (j - 0.2^j) * 5^vertexCount.
MakeEdgeList(vertexCount) ==
    [p \in 1..vertexCount |->
        LET i == p - 1
        IN  [n \in 1..Max(vertexCount - i - 1, 0) |->
                LET j == n + 1
                IN  [score |-> j * Pow(5, vertexCount) - Pow(5, vertexCount - j),
                     length |-> j, label |-> i * 10 + i + j,
                     isNumber |-> FALSE]]]

\* Lattices chosen freely: at each position at most one edge besides the
\* default edge, of any length that fits and a score of -1, 1 or 2.
FreeScores == {0 - 1, 1, 2}

FreeEdgeLists(n, i) ==
    {<<>>} \cup
    { <<[score |-> s, length |-> len, label |-> 100 + i, isNumber |-> FALSE]>> :
        s \in FreeScores, len \in 1..(n - i) }

RECURSIVE FreeLattices(_, _)
FreeLattices(n, i) ==
    IF i >= n THEN {<<>>}
    ELSE {<<first>> \o rest :
            first \in FreeEdgeLists(n, i), rest \in FreeLattices(n, i + 1)}

\* The paths the test "enumerates exact sequence of paths" expects of
\* makeEdgeList(6), as vertex numbers (a = 0) and scores * 5^6.
ExpectedPaths ==
    <<
       [vertices |-> <<0,6>>, score |-> 93749],
       [vertices |-> <<0,3,6>>, score |-> 93500],
       [vertices |-> <<0,3,4,6>>, score |-> 77375],
       [vertices |-> <<0,3,4,5,6>>, score |-> 46750],
       [vertices |-> <<0,3,5,6>>, score |-> 77375],
       [vertices |-> <<0,2,6>>, score |-> 93100],
       [vertices |-> <<0,2,4,6>>, score |-> 91875],
       [vertices |-> <<0,2,4,5,6>>, score |-> 61250],
       [vertices |-> <<0,2,3,6>>, score |-> 77375],
       [vertices |-> <<0,2,3,4,6>>, score |-> 61250],
       [vertices |-> <<0,2,3,4,5,6>>, score |-> 30625],
       [vertices |-> <<0,2,3,5,6>>, score |-> 61250],
       [vertices |-> <<0,2,5,6>>, score |-> 77375],
       [vertices |-> <<0,4,6>>, score |-> 93100],
       [vertices |-> <<0,4,5,6>>, score |-> 62475],
       [vertices |-> <<0,1,6>>, score |-> 78120],
       [vertices |-> <<0,1,3,6>>, score |-> 77375],
       [vertices |-> <<0,1,3,4,6>>, score |-> 61250],
       [vertices |-> <<0,1,3,4,5,6>>, score |-> 30625],
       [vertices |-> <<0,1,3,5,6>>, score |-> 61250],
       [vertices |-> <<0,1,4,6>>, score |-> 77375],
       [vertices |-> <<0,1,4,5,6>>, score |-> 46750],
       [vertices |-> <<0,1,2,6>>, score |-> 62475],
       [vertices |-> <<0,1,2,4,6>>, score |-> 61250],
       [vertices |-> <<0,1,2,4,5,6>>, score |-> 30625],
       [vertices |-> <<0,1,2,3,6>>, score |-> 46750],
       [vertices |-> <<0,1,2,3,4,6>>, score |-> 30625],
       [vertices |-> <<0,1,2,3,4,5,6>>, score |-> 0],
       [vertices |-> <<0,1,2,3,5,6>>, score |-> 30625],
       [vertices |-> <<0,1,2,5,6>>, score |-> 46750],
       [vertices |-> <<0,1,5,6>>, score |-> 62475],
       [vertices |-> <<0,5,6>>, score |-> 78120]
    >>

(***************************************************************************)
(* Specification Spec: a lexicon is filled and ingested into a tokenizer,  *)
(* and queries are turned into graphs.                                     *)
(***************************************************************************)
HashQuery(terms) == MapHash(MapStem(terms))

\* Tokenizer.generateGraph.
GenerateGraphOf(t, ds, hashed) == DynamicGraph(GenerateEdgeLists(t, ds, hashed))

RECURSIVE CountAliases(_)
CountAliases(ds) ==
    IF ds = <<>> THEN 0
    ELSE Len(Head(ds).tokenizerAliases) + CountAliases(Tail(ds))

\* No TestCase.run is under way and score has not been called.
NoRun ==
    [pc |-> "idle", expected |-> <<>>, term |-> 0, end |-> 0,
     observed |-> <<>>, succeeded |-> FALSE, previous |-> <<>>]

NoScore ==
    [called |-> FALSE, prefix |-> <<>>, downstream |-> {}, diff |-> EmptyDiff,
     result |-> [score |-> 0, length |-> 0]]

IdleRun == run = NoRun /\ scored = NoScore

IdleWalk ==
    /\ lattice = <<>>
    /\ family = "none"
    /\ turn = "dynamic"
    /\ walker = NewWalker(DynamicGraph(<<>>))
    /\ pc = "finished"
    /\ depth = 0
    /\ yielded = [dynamic |-> <<>>, static |-> <<>>]

Init ==
    /\ domains = <<>>
    /\ tok = EmptyTokenizer
    /\ query = <<>>
    /\ graph = DynamicGraph(<<>>)
    /\ IdleWalk
    /\ IdleRun

\* Lexicon.addDomain(aliases, forIngestion), with aliases drawn from inputs.
AddDomainFrom(inputs) ==
    /\ Len(domains) < MaxDomains
    /\ \E aliases \in SeqsUpTo(inputs, MaxAliases - CountAliases(domains)),
          forIngestion \in BOOLEAN :
          domains' = Append(domains,
                        DomainConstructor(aliases, Len(domains) + 1, forIngestion))
    /\ UNCHANGED <<tok, query, graph>>
    /\ UNCHANGED walkVars
    /\ UNCHANGED runVars

AddDomain == AddDomainFrom(AliasInputs)

\* Lexicon.ingest(tokenizer).
Ingest ==
    /\ LET r == LexiconIngest(domains, tok, 1)
       IN  /\ Len(r.tok.aliases) <= MaxItems
           /\ domains' = r.domains
           /\ tok' = r.tok
    /\ UNCHANGED <<query, graph>>
    /\ UNCHANGED walkVars
    /\ UNCHANGED runVars

\* TestCase.run, lines 144-147: the input is split, stemmed and hashed,
\* and the tokenizer builds its graph.
GenerateGraph ==
    /\ \E terms \in QueryInputs :
          /\ query' = terms
          /\ graph' = GenerateGraphOf(tok, domains, HashQuery(terms))
    /\ UNCHANGED <<domains, tok>>
    /\ UNCHANGED walkVars
    /\ UNCHANGED runVars

Next == AddDomain \/ Ingest \/ GenerateGraph

Spec == Init /\ [][Next]_vars

(***************************************************************************)
(* Specification SpecWalk: the walk() of graph.test.ts over a lattice,     *)
(* first with a GraphWalker over a DynamicGraph, then with one over a      *)
(* StaticGraph.                                                            *)
(***************************************************************************)
IdleLexicon ==
    /\ domains = <<>>
    /\ tok = EmptyTokenizer
    /\ query = <<>>
    /\ graph = DynamicGraph(<<>>)

InitWalk ==
    /\ IdleLexicon
    /\ IdleRun
    /\ \/ /\ family = "makeEdgeList"
          /\ \E vertexCount \in 1..MaxVertexCount :
                lattice = MakeEdgeList(vertexCount)
       \/ /\ family = "free"
          /\ \E n \in 1..MaxPositions : lattice \in FreeLattices(n, 0)
    /\ turn = "dynamic"
    /\ walker = NewWalker(DynamicGraph(lattice))
    /\ pc = "advance"
    /\ depth = 0
    /\ yielded = [dynamic |-> <<>>, static |-> <<>>]

\* The mutant yields after every advance, complete or not.
WalkAdvanceAlwaysYields ==
    /\ pc = "advance"
    /\ LET w == Advance(walker)
       IN  /\ walker' = w
           /\ yielded' = [yielded EXCEPT ![turn] = Append(@, GetPath(w))]
           /\ IF Complete(w)
              THEN pc' = "retreat" /\ depth' = depth
              ELSE pc' = "advance" /\ depth' = depth + 1
    /\ UNCHANGED <<lattice, family, turn>>
    /\ UNCHANGED lexVars
    /\ UNCHANGED runVars

\* walk(), lines 32-42: advance, then yield the path or walk further down.
WalkAdvance ==
    /\ pc = "advance"
    /\ LET w == Advance(walker)
       IN  /\ walker' = w
           /\ IF Complete(w)
              THEN /\ yielded' = [yielded EXCEPT
                                    ![turn] = Append(@, GetPath(w))]
                   /\ pc' = "retreat"
                   /\ depth' = depth
              ELSE /\ yielded' = yielded
                   /\ pc' = "advance"
                   /\ depth' = depth + 1
    /\ UNCHANGED <<lattice, family, turn>>
    /\ UNCHANGED lexVars
    /\ UNCHANGED runVars

\* walk(), lines 46-53: retreat, discard, and go round again or break.
WalkRetreat ==
    /\ pc = "retreat"
    /\ LET w1 == Retreat(walker, TRUE)
           w2 == Discard(w1)
       IN  /\ walker' = w2
           /\ IF DiscardFound(w1)
              THEN pc' = "advance" /\ depth' = depth
              ELSE IF depth = 0
                   THEN pc' = "finished" /\ depth' = depth
                   ELSE pc' = "retreat" /\ depth' = depth - 1
    /\ UNCHANGED <<lattice, family, turn, yielded>>
    /\ UNCHANGED lexVars
    /\ UNCHANGED runVars

\* The test then drives a walker over the other graph class.
WalkOther ==
    /\ pc = "finished"
    /\ turn = "dynamic"
    /\ turn' = "static"
    /\ walker' = NewWalker(StaticGraph(lattice))
    /\ pc' = "advance"
    /\ depth' = 0
    /\ UNCHANGED <<lattice, family, yielded>>
    /\ UNCHANGED lexVars
    /\ UNCHANGED runVars

NextWalk == WalkAdvance \/ WalkRetreat \/ WalkOther

SpecWalk == InitWalk /\ [][NextWalk]_vars

WalkDone == turn = "static" /\ pc = "finished"


\* The walk of the dynamic graph of makeEdgeList(6) yields the paths the
\* test expects, in their order.
WalkMatchesTest ==
    (family = "makeEdgeList" /\ Len(lattice) = 6 /\ pc = "finished")
        => /\ [i \in 1..Len(yielded.dynamic) |->
                 [vertices |-> yielded.dynamic[i].vertices,
                  score |-> yielded.dynamic[i].score]] = ExpectedPaths
           /\ \A i \in 1..Len(yielded.dynamic) :
                 yielded.dynamic[i].current = 6


(***************************************************************************)
(* Claims about the graph walker, checked under SpecWalk.                  *)
(***************************************************************************)
Walked == {"dynamic", "static"}

WithDefaults == WithDefaultEdges(lattice)

\* The total scores of all complete paths from vertex v, by enumeration.
RECURSIVE AllTotals(_, _)
AllTotals(lists, v) ==
    IF v = Len(lists) THEN {0}
    ELSE UNION { {lists[v + 1][k].score + t :
                    t \in AllTotals(lists, v + lists[v + 1][k].length)} :
                 k \in {j \in 1..Len(lists[v + 1]) :
                          /\ lists[v + 1][j].length >= 1
                          /\ v + lists[v + 1][j].length <= Len(lists)} }

BestTotal(lists, v) ==
    LET totals == AllTotals(lists, v)
    IN  CHOOSE t \in totals : \A u \in totals : t >= u

\* The index of the first edge at which two yielded paths differ.
FirstDifference(p, q) ==
    CHOOSE n \in 1..Len(p.idx) :
        /\ n <= Len(q.idx)
        /\ p.idx[n] # q.idx[n]
        /\ \A m \in 1..(n - 1) : p.idx[m] = q.idx[m]

\* C3: the path the walk loop has yielded last is complete: the walker
\* stood at the last vertex, the lengths of the path's edges sum to the
\* number of positions, and each edge is one of the lattice's edges (or the
\* default edge) at the vertex where the edges before it end.  Every yielded
\* path is the last one in the state that follows its yield.
C3_YieldedPathsCoverQuery ==
    \A which \in Walked :
        (turn = which /\ yielded[which] # <<>>) =>
            LET p == yielded[which][Len(yielded[which])]
            IN  /\ p.current = Len(lattice)
                /\ SumLengths(p.edges) = Len(lattice)
                /\ \A n \in 1..Len(p.edges) :
                      /\ p.vertices[n] = SumLengths(SubSeq(p.edges, 1, n - 1))
                      /\ p.vertices[n] < Len(lattice)
                      /\ p.edges[n] \in
                            Range(lattice[p.vertices[n] + 1]) \cup {DefaultEdge}

C3_Witness ==
    /\ family = "free"
    /\ Len(lattice) = 3
    /\ Len(yielded.dynamic) >= 3
    /\ \E i \in 1..Len(yielded.dynamic) :
          \E n \in 1..Len(yielded.dynamic[i].edges) :
              yielded.dynamic[i].edges[n].length = 2

\* C4: the first path a walker yields has a total score that no complete
\* path of the lattice exceeds.
C4_FirstPathIsBest ==
    \A which \in Walked :
        (turn = which /\ pc = "retreat" /\ Len(yielded[which]) = 1)
            => yielded[which][1].score = BestTotal(WithDefaults, 0)

C4_Witness ==
    /\ family = "free"
    /\ Len(yielded.dynamic) >= 1
    /\ Len(yielded.static) >= 1
    /\ Len(yielded.dynamic[1].edges) = 2
    /\ Cardinality(AllTotals(WithDefaults, 0)) >= 3

\* C5, as the claim states it: a path just yielded has, against every path
\* yielded before it, at the first edge where the two differ, the edge with
\* the lower score, or an edge of equal score inserted later.
C5_OrderByEdgeScore ==
    \A which \in Walked :
        (turn = which /\ pc = "retreat") =>
            \A i \in 1..(Len(yielded[which]) - 1) :
                LET p == yielded[which][i]
                    q == yielded[which][Len(yielded[which])]
                    n == FirstDifference(p, q)
                IN  \/ p.edges[n].score > q.edges[n].score
                    \/ /\ p.edges[n].score = q.edges[n].score
                       /\ p.idx[n] < q.idx[n]

\* The best total of the paths that go on with edge n of path p.
TotalThrough(p, n) ==
    p.edges[n].score
      + BestTotal(WithDefaults, p.vertices[n] + p.edges[n].length)

\* C5, amended: a path just yielded has, against every path yielded before
\* it, at the first edge where the two differ, the edge whose score plus the
\* best score of a completion behind it is lower, or equal with the edge
\* inserted later (the default edge counts as inserted first).
C5_OrderByBestCompletion ==
    \A which \in Walked :
        (turn = which /\ pc = "retreat") =>
            \A i \in 1..(Len(yielded[which]) - 1) :
                LET p == yielded[which][i]
                    q == yielded[which][Len(yielded[which])]
                    n == FirstDifference(p, q)
                IN  \/ TotalThrough(p, n) > TotalThrough(q, n)
                    \/ /\ TotalThrough(p, n) = TotalThrough(q, n)
                       /\ p.idx[n] < q.idx[n]

C5_Witness ==
    /\ Len(yielded.dynamic) >= 4
    /\ \E i, j \in 1..Len(yielded.dynamic) :
          /\ i < j
          /\ LET p == yielded.dynamic[i]
                 q == yielded.dynamic[j]
                 n == FirstDifference(p, q)
             IN  /\ p.edges[n].score < q.edges[n].score
                 /\ TotalThrough(p, n) = TotalThrough(q, n)

IsPrefixSeq(s, t) == Len(s) <= Len(t) /\ SubSeq(t, 1, Len(s)) = s

\* C6: the walker over the static graph yields the paths the walker over
\* the dynamic graph yielded, edge for edge and score for score, in the
\* same order, and stops after as many.
C6_StaticAgreesWithDynamic ==
    /\ turn = "static" => IsPrefixSeq(yielded.static, yielded.dynamic)
    /\ WalkDone => yielded.static = yielded.dynamic

C6_Witness ==
    /\ WalkDone
    /\ family = "free"
    /\ Len(yielded.static) >= 4
    /\ \E i \in 1..Len(yielded.static) :
          \E j \in 1..Len(yielded.static) :
              i # j /\ yielded.static[i].score = yielded.static[j].score

\* C7: over a lattice of makeEdgeList the walk loop yields 2^(N-1) paths,
\* no two alike, before discard() fails at the root.
C7_PathCount ==
    (family = "makeEdgeList" /\ pc = "finished")
        => /\ Len(yielded[turn]) = Pow(2, Len(lattice) - 1)
           /\ \A i, j \in 1..Len(yielded[turn]) :
                 i # j => yielded[turn][i].vertices # yielded[turn][j].vertices

C7_Witness ==
    /\ family = "makeEdgeList"
    /\ pc = "finished"
    /\ depth = 0
    /\ Len(lattice) = 5
    /\ Len(yielded.dynamic) = 16

(***************************************************************************)
(* Specification SpecRun: TestCase.run of relevance_suite.ts, test case    *)
(* after test case on one tokenizer.  A call of the tokenizer is modelled  *)
(* by the tokenizer it leaves together with what it returns.               *)
(***************************************************************************)
\* Expected token texts per test case.
MaxExpected == 2

\* Two aliases of the token RED, and an alias that repeats a term.
RunAliasInputs ==
    { [token |-> "RED",    text |-> <<"red">>,         matcher |-> "exactPrefix"],
      [token |-> "RED",    text |-> <<"red", "cars">>, matcher |-> "exactPrefix"],
      [token |-> "CARCAR", text |-> <<"cars", "car">>, matcher |-> "exactPrefix"] }

RunQueryInputs == { <<"red", "cars">>, <<"red", "one">>, <<"blue", "red">> }

ExpectedTexts == {"RED", "cars", "1"}

\* The mutant counts the query's fingerprints into hashToFrequency.
GenerateGraphCounting(t, ds, hashed) ==
    [tok |-> [t EXCEPT !.hashToFrequency =
                 [h \in DOMAIN @ |-> @[h] + Cardinality({i \in DOMAIN hashed : hashed[i] = h})]],
     graph |-> GenerateGraphOf(t, ds, hashed)]

\* A call of generateGraph: it assigns to no field of the tokenizer.
GenerateGraphCall(t, ds, hashed) ==
    [tok |-> t, graph |-> GenerateGraphOf(t, ds, hashed)]

\* A call of tokenFromEdge.
TokenFromEdgeCall(t, edge) ==
    IF edge.isNumber
    THEN [tok |-> t, token |-> [type |-> "NUMBER", value |-> edge.label, name |-> ""]]
    ELSE IF edge.label = -1
    THEN [tok |-> t, token |-> [type |-> "UNKNOWN", value |-> 0, name |-> ""]]
    ELSE [tok |-> t,
          token |-> [type |-> "ENTITY", value |-> 0,
                     name |-> t.aliases[edge.label + 1].token]]

\* unknownFactory and tokenToString are the caller's: a word token of the
\* surface term an unknown edge covers, and a token's name or its value in
\* digits.
UnknownFactory(terms) ==
    [type |-> "WORD", value |-> 0, name |-> IF terms = <<>> THEN "" ELSE terms[1]]

TokenToString(token) ==
    IF token.type = "NUMBER" THEN ToString(token.value) ELSE token.name

\* advance() returns true iff an advance occurred.
AdvanceOccurs(w) == w.right # <<>>

\* walker.left[walker.left.length - 1]
LastEdge(w) == EdgesAt(w.graph, LastStart(w))[w.left[Len(w.left)]]

\* The text the harness compares for the edge, which ends at position end.
EdgeText(t, terms, edge, end) ==
    LET token == TokenFromEdgeCall(t, edge).token
    IN  TokenToString(IF token.type = "UNKNOWN"
                      THEN UnknownFactory(SubSeq(terms, end - edge.length + 1, end))
                      ELSE token)

InitRun ==
    /\ \E aliases \in SeqsUpTo(RunAliasInputs, MaxAliases) :
          LET r == LexiconIngest(<<DomainConstructor(aliases, 1, TRUE)>>,
                                 EmptyTokenizer, 1)
          IN  domains = r.domains /\ tok = r.tok
    /\ query = <<>>
    /\ graph = DynamicGraph(<<>>)
    /\ IdleWalk
    /\ IdleRun

\* TestCase.run, lines 144-152: the graph and the walker of the input.  The
\* run keeps the input of the test case before it.
RunStart ==
    /\ run.pc \in {"idle", "done"}
    /\ \E terms \in RunQueryInputs :
          LET call == GenerateGraphCall(tok, domains, HashQuery(terms))
          IN  /\ query' = terms
              /\ tok' = call.tok
              /\ graph' = call.graph
              /\ walker' = NewWalker(call.graph)
              /\ \E expected \in SeqsUpTo(ExpectedTexts, MaxExpected) \ {<<>>} :
                    run' = [pc |-> "check", expected |-> expected, term |-> 1,
                            end |-> 0, observed |-> <<>>, succeeded |-> FALSE,
                            previous |-> query]
    /\ UNCHANGED <<domains, scored>>
    /\ UNCHANGED <<lattice, family, turn, pc, depth, yielded>>

\* TestCase.run, lines 153-192: one test of walker.advance() and, if it
\* advanced, one pass of the while loop, as the run, the walker and the
\* tokenizer it leaves.
RunStepOf(r, w0, t, terms) ==
    IF ~AdvanceOccurs(w0)
    THEN [run |-> [r EXCEPT !.succeeded = FALSE, !.pc = "done"],
          walker |-> w0, tok |-> t]
    ELSE LET w == Advance(w0)
             edge == LastEdge(w)
             end == r.end + edge.length
             call == TokenFromEdgeCall(t, edge)
             text == EdgeText(t, terms, edge, end)
         IN  IF text = r.expected[r.term]
             THEN [run |-> [r EXCEPT
                      !.end = end,
                      !.observed = Append(@, text),
                      !.succeeded = (r.term = Len(r.expected)),
                      !.term = IF r.term = Len(r.expected) THEN @ ELSE @ + 1,
                      !.pc = IF r.term = Len(r.expected)
                             THEN "done" ELSE "check"],
                   walker |-> w, tok |-> call.tok]
             ELSE [run |-> r, walker |-> Discard(Retreat(w, FALSE)),
                   tok |-> call.tok]

RunStep ==
    /\ run.pc = "check"
    /\ LET step == RunStepOf(run, walker, tok, query)
       IN  /\ run' = step.run
           /\ walker' = step.walker
           /\ tok' = step.tok
    /\ UNCHANGED <<domains, query, graph, scored>>
    /\ UNCHANGED <<lattice, family, turn, pc, depth, yielded>>

NextRun == RunStart \/ RunStep

SpecRun == InitRun /\ [][NextRun]_vars

(***************************************************************************)
(* Claims about the lexicon, the tokenizer's index and its lattices,       *)
(* checked under Spec.                                                     *)
(***************************************************************************)
RECURSIVE SumHashes(_)
SumHashes(as) ==
    IF as = <<>> THEN 0 ELSE Len(Head(as).hashes) + SumHashes(Tail(as))

\* C1: the k-th alias added (counting from 0) carries id k: the postings
\* list of each of its fingerprints holds k once per occurrence of the
\* fingerprint in the alias, the postings hold no id that was not assigned,
\* and all postings lists together hold as many entries as the added
\* aliases have fingerprints.
C1_PostingsHoldAliasIds ==
    /\ \A k \in 1..Len(tok.aliases) :
          \A h \in Range(tok.aliases[k].hashes) :
              /\ h \in DOMAIN tok.postings
              /\ Occurrences(tok.postings[h], k - 1)
                    = Occurrences(tok.aliases[k].hashes, h)
    /\ \A h \in DOMAIN tok.postings :
          Range(tok.postings[h]) \subseteq 0..(Len(tok.aliases) - 1)
    /\ SumOver([h \in DOMAIN tok.postings |-> Len(tok.postings[h])],
               DOMAIN tok.postings) = SumHashes(tok.aliases)

C1_Witness ==
    /\ Len(tok.aliases) >= 2
    /\ \E k \in 1..Len(tok.aliases) :
          /\ k >= 2
          /\ tok.aliases[k].token = "CARCAR"
          /\ Occurrences(tok.postings[HashTerm("car")], k - 1) = 2

\* The graph held is the one generateGraph builds of the query held from
\* the tokenizer and lexicon as they are.
GraphIsCurrent ==
    /\ query # <<>>
    /\ graph = GenerateGraphOf(tok, domains, HashQuery(query))

\* The position (1-based) at which neither the postings nor the number
\* parser produce an edge.
NoEdgeAt(hashed, index) ==
    /\ hashed[index] \notin DOMAIN tok.postings
    /\ Parse(SubSeq(hashed, index, Len(hashed))) = <<>>

AloneAndIngested ==
    /\ Len(domains) = 1
    /\ domains[1].forIngestion
    /\ Len(domains[1].tokenizerAliases) = 1
    /\ tok.aliases = domains[1].tokenizerAliases
    /\ HashQuery(query) = tok.aliases[1].hashes
    /\ GraphIsCurrent

\* C8: the best complete path of the graph of an alias registered alone is
\* the single edge of the alias: its length is the number of fingerprints
\* of the alias and its label is the alias id.
C8_RoundTrip ==
    AloneAndIngested =>
        LET path == PathEdges(graph, 0, FindPath(graph, 0, {}))
        IN  /\ Len(path) = 1
            /\ path[1].length = Len(tok.aliases[1].hashes)
            /\ path[1].label = 0
            /\ ~path[1].isNumber

\* What Lexicon.ingest leaves in the downstream sets of domains ds.
DownstreamSetsAreComputed(ds) ==
    \A d \in 1..Len(ds) :
        ds[d].forIngestion =>
            /\ ds[d].downstreamTerms =
                  OwnHashedTerms
                    \cup UNION {ds[j].ownTerms : j \in (1..Len(ds)) \ {d}}
            /\ \A h \in ds[d].ownTerms :
                  h \in ds[d].downstreamTerms =>
                      \/ h \in OwnHashedTerms
                      \/ \E j \in (1..Len(ds)) \ {d} : h \in ds[j].ownTerms

NoForeignItems(ds, t) ==
    \A k \in 1..Len(t.aliases) :
        /\ t.aliases[k].domain \in 1..Len(ds)
        /\ ds[t.aliases[k].domain].forIngestion
        /\ t.aliases[k] \in Range(ds[t.aliases[k].domain].tokenizerAliases)

\* The own terms of the domains not for ingestion are downstream terms of
\* every other domain that is for ingestion.
ForeignTermsAreDownstream(ds) ==
    \A n \in 1..Len(ds) :
        ~ds[n].forIngestion =>
            \A d \in (1..Len(ds)) \ {n} :
                ds[d].forIngestion =>
                    ds[n].ownTerms \subseteq ds[d].downstreamTerms

\* C10: after every step the tokenizer holds no alias of a domain added with
\* forIngestion = false, and a step of Lexicon.ingest leaves the own
\* fingerprints of such a domain in the downstream set of every other
\* ingestion domain.
C10_NonIngestionDomains ==
    [][/\ NoForeignItems(domains', tok')
       /\ Ingest => ForeignTermsAreDownstream(domains')]_vars

C10_Witness ==
    /\ Len(domains) = 2
    /\ tok.aliases # <<>>
    /\ \E n \in 1..2 :
          /\ ~domains[n].forIngestion
          /\ domains[n].ownTerms \ OwnHashedTerms # {}
          /\ domains[3 - n].forIngestion
          /\ domains[n].ownTerms \subseteq domains[3 - n].downstreamTerms
          /\ \A k \in 1..Len(tok.aliases) : tok.aliases[k].domain = 3 - n

\* The number matches the parser emits on the tail of hashed at index.
NumberMatchesAt(hashed, index) == Parse(SubSeq(hashed, index, Len(hashed)))

\* C12: for every position and every {value, length} the number parser
\* emits there, the graph holds at that position a number edge labelled
\* with the value, of that length, whose score is the length.
C12_NumberEdgeScoreIsLength ==
    GraphIsCurrent =>
        LET hashed == HashQuery(query)
        IN  \A i \in 1..Len(hashed) :
                \A n \in 1..Len(NumberMatchesAt(hashed, i)) :
                    LET value == NumberMatchesAt(hashed, i)[n]
                    IN  \E k \in 1..Len(graph.edges[i]) :
                            /\ graph.edges[i][k].isNumber
                            /\ graph.edges[i][k].label = value.value
                            /\ graph.edges[i][k].length = value.length
                            /\ graph.edges[i][k].score
                                  = value.length * ScoreScale

\* What the tokenizer computes for its item k against the query terms, the
\* lexicon's domains being ds.
ItemScore(ds, k, terms) == MatchAndScore(ds, HashQuery(terms), tok.aliases[k])

\* C13: no step of the lexicon changes the score or the length the
\* tokenizer computes for an item it already holds against a query.
C13_NoBackReference ==
    [][\A k \in 1..Len(tok.aliases) :
          \A terms \in QueryInputs :
              ItemScore(domains', k, terms) = ItemScore(domains, k, terms)]_vars

(***************************************************************************)
(* Specification SpecLexicon: registration and ingestion alone, with the   *)
(* malformed alias among the inputs.                                       *)
(***************************************************************************)
AddAnyDomain == AddDomainFrom(RegistrationInputs)

NextLexicon == AddAnyDomain \/ Ingest

SpecLexicon == Init /\ [][NextLexicon]_vars

\* A registered alias is well formed: its text is not empty, and its terms,
\* stems and fingerprints are as many, at least one, no term empty.
WellFormed(a) ==
    /\ a.text # <<>>
    /\ Len(a.terms) = Len(a.stemmed)
    /\ Len(a.stemmed) = Len(a.hashes)
    /\ Len(a.hashes) >= 1
    /\ \A i \in 1..Len(a.terms) : a.terms[i] # ""

\* C11: an alias of empty text is rejected by addDomain: every alias a
\* domain stores is well formed, the fingerprint of the empty term is no
\* domain's own term, and every item of the tokenizer is well formed.
C11_EmptyAliasRejected ==
    /\ \A d \in 1..Len(domains) :
          /\ \A n \in 1..Len(domains[d].tokenizerAliases) :
                WellFormed(domains[d].tokenizerAliases[n])
          /\ HashTerm(Stem("")) \notin domains[d].ownTerms
    /\ \A k \in 1..Len(tok.aliases) : WellFormed(tok.aliases[k])

\* From vertex v on there are consecutive edges of the graph, each one the
\* walker can take, whose texts are the expected texts in order.
RECURSIVE Spells(_, _, _, _, _)
Spells(t, g, terms, v, expected) ==
    \/ expected = <<>>
    \/ /\ v < VertexCount(g)
       /\ \E k \in 1..Len(EdgesAt(g, v)) :
             LET e == EdgesAt(g, v)[k]
             IN  /\ Usable(g, v, k)
                 /\ EdgeText(t, terms, e, v + e.length) = Head(expected)
                 /\ Spells(t, g, terms, v + e.length, Tail(expected))

\* C19: TestCase.run returns passed = true exactly when the lattice holds,
\* from position 0 on, consecutive edges whose texts are expectedTokenText
\* in order; if the lattice holds them, the test passes.
C19_PassesIffSpelled ==
    run.pc = "done" =>
       (run.succeeded <=> Spells(tok, graph, query, 0, run.expected))

\* C20: when TestCase.run returns passed = true, the lengths of the edges
\* of walker.left sum to the number of input terms and walker.complete()
\* holds.
C20_PassedRunsCoverInput ==
    (run.pc = "done" /\ run.succeeded) =>
       /\ SumLengths(PathEdges(walker.graph, 0, walker.left)) = Len(query)
       /\ Complete(walker)

\* The edges at the walker's vertex that it has not given up there.
EdgesLeft(w) ==
    IF w.current >= VertexCount(w.graph) THEN 0
    ELSE Cardinality((1..Len(EdgesAt(w.graph, w.current)))
                        \ w.discarded[w.current])

\* One more than the edges of the longest edge list of the graph.
RECURSIVE MostEdges(_, _)
MostEdges(g, v) ==
    IF v >= VertexCount(g) THEN 1
    ELSE Max(Len(EdgesAt(g, v)) + 1, MostEdges(g, v + 1))

\* What a run can still do: the expected texts not yet found, each worth
\* more than any vertex has edges, and the edges left at the walker's vertex.
Remaining(r, w) ==
    IF r.pc # "check" THEN 0
    ELSE 1 + (Len(r.expected) - r.term) * MostEdges(w.graph, 0) + EdgesLeft(w)

InitCalls ==
    /\ IdleLexicon
    /\ IdleRun
    /\ family = "free"
    /\ \E n \in 1..MaxPositions : lattice \in FreeLattices(n, 0)
    /\ turn = "dynamic"
    /\ walker = NewWalker(DynamicGraph(lattice))
    /\ pc = "calls"
    /\ depth = 0
    /\ yielded = [dynamic |-> <<>>, static |-> <<>>]

\* pc is "calls" until the caller retreats, and "retreated" from then until
\* its next discard.
CallAdvance ==
    /\ pc \in {"calls", "retreated"}
    /\ walker' = Advance(walker)
    /\ UNCHANGED <<lattice, family, turn, pc, depth, yielded>>
    /\ UNCHANGED lexVars
    /\ UNCHANGED runVars

CallRetreat ==
    /\ pc \in {"calls", "retreated"}
    /\ \E keepEdge \in BOOLEAN : walker' = Retreat(walker, keepEdge)
    /\ pc' = "retreated"
    /\ UNCHANGED <<lattice, family, turn, depth, yielded>>
    /\ UNCHANGED lexVars
    /\ UNCHANGED runVars

CallDiscard ==
    /\ pc \in {"calls", "retreated"}
    /\ walker' = Discard(walker)
    /\ pc' = "calls"
    /\ UNCHANGED <<lattice, family, turn, depth, yielded>>
    /\ UNCHANGED lexVars
    /\ UNCHANGED runVars

NextCalls == CallAdvance \/ CallRetreat \/ CallDiscard

SpecCalls == InitCalls /\ [][NextCalls]_vars

\* The indexes idx name, edge after edge from vertex v, edges of the graph
\* that stay within it.
RECURSIVE IsPathFrom(_, _, _)
IsPathFrom(g, v, idx) ==
    \/ idx = <<>>
    \/ /\ v < VertexCount(g)
       /\ Head(idx) \in 1..Len(EdgesAt(g, v))
       /\ LET e == EdgesAt(g, v)[Head(idx)]
          IN  /\ e.length >= 1
              /\ v + e.length <= VertexCount(g)
              /\ IsPathFrom(g, v + e.length, Tail(idx))

\* The edges of left are edges of the lattice, and current is the sum of
\* their lengths and lies in 0..N.
LeftReachesCurrent(w) ==
    /\ w.current \in 0..VertexCount(w.graph)
    /\ IsPathFrom(w.graph, 0, w.left)
    /\ w.current = SumLengths(PathEdges(w.graph, 0, w.left))

\* The edges of right are edges of the lattice that lead from current
\* exactly to N.
RightReachesEnd(w) ==
    /\ IsPathFrom(w.graph, w.current, w.right)
    /\ w.current + SumLengths(PathEdges(w.graph, w.current, w.right))
         = VertexCount(w.graph)

IngestedTokenizer == LexiconIngest(domains, EmptyTokenizer, 1).tok

\* C14: generateGraph and tokenFromEdge leave aliases, postings,
\* hashToFrequency and hashToText as the ingest left them, and the lattice
\* of a query run after other queries on the same tokenizer is the lattice
\* the query gets on a tokenizer that has served no query.
C14_QueriesLeaveTokenizerAlone ==
    /\ tok = IngestedTokenizer
    /\ run.pc # "idle" =>
          graph = GenerateGraphOf(IngestedTokenizer, domains, HashQuery(query))

\* A test case, after a test case of another input, has taken the token of
\* an alias edge from the tokenizer.
C14_Witness ==
    /\ run.previous # <<>>
    /\ run.previous # query
    /\ "RED" \in Range(run.observed)
    /\ Len(tok.aliases) = 2

(***************************************************************************)
(* Claims about the edge lists generateGraph sorts (Spec).                 *)
(***************************************************************************)
\* The edges generateGraph sorted for position i, behind the default edge.
SortedEdgesAt(i) == Tail(graph.edges[i])

\* a >= b on scores, as JavaScript evaluates it (false for NaN).
AtLeast(a, b) ==
    CASE a = NaN \/ b = NaN -> FALSE
      [] a = PosInf -> TRUE
      [] b = PosInf -> FALSE
      [] OTHER -> a >= b

\* The edges of a list that have score s, in the order of the list.
WithScore(edges, s) ==
    LET Same(e) == e.score = s IN SelectSeq(edges, Same)

\* C16: in the lattice generateGraph returns, the edges sorted for each
\* position are in non-increasing score order, and the edges of one score
\* stand in the order in which they were inserted, alias edges in postings
\* order before number edges in parser order.
C16_EdgeListsSorted ==
    GraphIsCurrent =>
        LET hashed == HashQuery(query)
        IN  \A i \in 1..Len(hashed) :
               LET sorted == SortedEdgesAt(i)
                   inserted == AliasEdges(tok, domains, hashed, i)
                                  \o NumberEdges(hashed, i)
               IN  /\ \A k \in 1..(Len(sorted) - 1) :
                         AtLeast(sorted[k].score, sorted[k + 1].score)
                   /\ \A e \in Range(sorted) :
                         WithScore(sorted, e.score) = WithScore(inserted, e.score)

\* C18: every edge generateGraph makes at position i (0-based) of a query
\* of N fingerprints has a length of at least 1 and at most N - i, the
\* rejected alias edges and the alias edges of an empty match included.
C18_EdgeLengthsFit ==
    GraphIsCurrent =>
        LET N == Len(HashQuery(query))
        IN  \A i \in 1..N :
               \A k \in 1..Len(SortedEdgesAt(i)) :
                  LET e == SortedEdgesAt(i)[k]
                  IN  1 <= e.length /\ e.length <= N - (i - 1)

\* C22: in the lattice generateGraph returns, no position holds two alias
\* edges of one alias id, also when the alias repeats the fingerprint found
\* at the position.
C22_OneEdgePerAlias ==
    GraphIsCurrent =>
        \A i \in 1..Len(HashQuery(query)) :
           \A k, n \in 1..Len(SortedEdgesAt(i)) :
              LET a == SortedEdgesAt(i)[k]
                  b == SortedEdgesAt(i)[n]
              IN  (k # n /\ ~a.isNumber /\ ~b.isNumber) => a.label # b.label

(***************************************************************************)
(* Specification SpecScore: Tokenizer.score called on DiffResults of any   *)
(* matcher.                                                                *)
(***************************************************************************)
\* Length of match and of prefix, and the edit cost.
MaxMatch == 2
MaxCost == 2

HashInputs == {HashTerm("red"), HashTerm("car")}

\* DiffResults: the match, its cost, where it lies in the query, and the
\* terms it shares with the query.
DiffInputs ==
    { [match |-> match, cost |-> cost, leftmostA |-> leftmostA,
       rightmostA |-> rightmostA, alignments |-> Len(match),
       commonTerms |-> commonTerms] :
         match \in SeqsUpTo(HashInputs, MaxMatch),
         cost \in 0..MaxCost,
         leftmostA \in 0..1,
         rightmostA \in (0 - 1)..MaxMatch,
         commonTerms \in SUBSET HashInputs }

\* The arguments of a call about to be made.
InitScore ==
    /\ IdleLexicon
    /\ IdleWalk
    /\ run = NoRun
    /\ \E diff \in {d \in DiffInputs : d.commonTerms \subseteq Range(d.match)},
          prefix \in SeqsUpTo(HashInputs, MaxMatch) \ {<<>>},
          downstream \in SUBSET HashInputs :
          scored = [NoScore EXCEPT !.prefix = prefix,
                                   !.downstream = downstream,
                                   !.diff = diff]

\* The call of score on those arguments; the query is only logged.
ScoreCall ==
    /\ ~scored.called
    /\ scored' = [scored EXCEPT
          !.called = TRUE,
          !.result = Score(scored.diff.match, scored.prefix,
                           [h \in HashInputs |-> h \in scored.downstream],
                           scored.diff)]
    /\ UNCHANGED run
    /\ UNCHANGED lexVars
    /\ UNCHANGED walkVars

NextScore == ScoreCall

SpecScore == InitScore /\ [][NextScore]_vars

\* C17: every score that score returns, for every DiffResults, the empty
\* match with rightmostA = -1 and cost 0 among them, is -1 or greater than
\* 0.01.
C17_ScoreIsRejectedOrAboveFloor ==
    scored.called =>
       \/ scored.result.score = 0 - ScoreScale
       \/ /\ scored.result.score # NaN
          /\ ~AtMostFloor(scored.result.score)

====
